---- MODULE Spec2Model ----
(***************************************************************************)
(* ArtAnalytics: the resumable collection harvester.                       *)
(*                                                                         *)
(* The model follows one museum's download process: the progress tracker   *)
(* (src/download/progress_tracker.py and its three specialisations in     *)
(* src/museums/{aic,met,cma}.py), the source adapters' iterators and the   *)
(* orchestrator loop (src/download/artwork_downloader.py).  The progress   *)
(* file and its temp file live on a disk that survives a kill of the       *)
(* process; everything else is process memory.                             *)
(***************************************************************************)
EXTENDS Integers, Sequences, FiniteSets, TLC

\* ------------------------------------------------------------------ bounds
MaxItems == 2       \* longest listing / dump; the ids are 1..MaxItems
MaxFaults == 1      \* failures injected: I/O faults of a save, failed fetches
PageLimit == 1      \* items the page API returns per page

Ids == 1..MaxItems

\* ------------------------------------------------------- python values
\* A Python str holding a number is the tuple of its decimal digits.
RECURSIVE Digits(_)
Digits(n) == IF n < 10 THEN <<n>> ELSE Append(Digits(n \div 10), n % 10)

RECURSIVE ToInt(_)
ToInt(s) == IF Len(s) = 0 THEN 0
            ELSE 10 * ToInt(SubSeq(s, 1, Len(s) - 1)) + s[Len(s)]

\* An id handed to the tracker is an int or a str.
PyInt(n) == [int |-> n]
PyStr(s) == [str |-> s]

\* str(x)
Str(v) == IF "int" \in DOMAIN v THEN Digits(v.int) ELSE v.str

\* None for an optional str; a missing attribute of the state object.
NoneId == <<-1>>
AbsentId == <<-2>>
Absent == -1
NoneMsg == "<None>"

\* truthiness of an optional str ("if error_message:")
Truthy(m) == m # NoneMsg /\ m # ""

\* list(a_set): the elements in some order; the model takes ascending order.
RECURSIVE SetToList(_)
SetToList(S) ==
    IF S = {} THEN <<>>
    ELSE LET m == CHOOSE x \in S : \A y \in S : ToInt(x) <= ToInt(y)
         IN  <<m>> \o SetToList(S \ {m})

\* set(a_list)
ListToSet(l) == {l[i] : i \in DOMAIN l}

\* ------------------------------------------------------- progress state
Museums == {"aic", "met", "cma"}

SetKeys == {"processed_ids", "success_ids", "failed_ids"}

\* ProgressState(): the four shared fields; the model's record carries every
\* cursor of every specialisation, Absent where the object has no such
\* attribute.
ProgressState ==
    [processed_ids |-> {}, success_ids |-> {}, failed_ids |-> {},
     error_log |-> {},
     last_page |-> Absent, total_pages |-> Absent,
     last_processed_index |-> Absent, total_files |-> Absent,
     total_objects |-> Absent, last_object_id |-> AbsentId]

AICProgressState ==
    [ProgressState EXCEPT !.last_page = 0, !.total_pages = 0,
                          !.last_processed_index = 0, !.total_files = 0]

MetProgressState ==
    [ProgressState EXCEPT !.total_objects = 0, !.last_object_id = NoneId]

CMAProgressState ==
    [ProgressState EXCEPT !.total_objects = 0, !.last_processed_index = 0]

\* The state object a tracker holds when its constructor reaches
\* _load_progress.  MetProgressTracker.__init__ assigns MetProgressState()
\* and then calls BaseProgressTracker.__init__, which assigns ProgressState().
TrackerInitState(m) ==
    CASE m = "aic" -> AICProgressState
      [] m = "met" -> ProgressState
      [] m = "cma" -> CMAProgressState

\* --------------------------------------------------------- json documents
\* A document has the keys it holds, the keys whose value is not a list
\* (set(...) raises on them), and the values.
DocVal ==
    [processed_ids |-> <<>>, success_ids |-> <<>>, failed_ids |-> <<>>,
     error_log |-> {},
     last_page |-> 0, total_pages |-> 0,
     last_processed_index |-> 0, total_files |-> 0,
     total_objects |-> 0, last_object_id |-> NoneId]

NoDoc == [keys |-> {}, bad |-> {}, val |-> DocVal]

CommonKeys == {"processed_ids", "success_ids", "failed_ids", "error_log"}

MakeDoc(keys, st) ==
    [keys |-> keys, bad |-> {},
     val |-> [k \in DOMAIN DocVal |->
                IF k \notin keys THEN DocVal[k]
                ELSE IF k \in SetKeys THEN SetToList(st[k])
                ELSE st[k]]]

\* get_state_dict of each tracker: ok is FALSE when building the dict
\* raises AttributeError (an attribute the state object does not have).
\* AIC_get_state_dict with the 'failed_ids' entry left out of the dict.
AIC_get_state_dict_no_failed(st) ==
    [ok |-> TRUE,
     doc |-> MakeDoc((CommonKeys \ {"failed_ids"}) \cup {"last_page", "total_pages"}, st)]

AIC_get_state_dict(st) ==
    [ok |-> TRUE,
     doc |-> MakeDoc(CommonKeys \cup {"last_page", "total_pages"}, st)]

Met_get_state_dict(st) ==
    IF st.total_objects = Absent \/ st.last_object_id = AbsentId
    THEN [ok |-> FALSE, doc |-> NoDoc]
    ELSE [ok |-> TRUE,
          doc |-> MakeDoc(CommonKeys \cup {"total_objects", "last_object_id"}, st)]

CMA_get_state_dict(st) ==
    [ok |-> TRUE,
     doc |-> MakeDoc(CommonKeys \cup {"total_objects", "last_processed_index"}, st)]

get_state_dict(m, st) ==
    CASE m = "aic" -> AIC_get_state_dict(st)
      [] m = "met" -> Met_get_state_dict(st)
      [] m = "cma" -> CMA_get_state_dict(st)

\* data.get(key, default)
Get(doc, key, default) == IF key \in doc.keys THEN doc.val[key] ELSE default

\* self.state.<key> = set(data.get(key, [])): raises when the value is not
\* iterable; acc.ok = FALSE once a statement has raised.
RestoreSet(acc, doc, key) ==
    IF ~acc.ok THEN acc
    ELSE IF key \in doc.keys /\ key \in doc.bad THEN [acc EXCEPT !.ok = FALSE]
    ELSE [acc EXCEPT !.st[key] = ListToSet(Get(doc, key, <<>>))]

\* self.state.<key> = data.get(key, default)
RestoreVal(acc, doc, key, default) ==
    IF ~acc.ok THEN acc
    ELSE [acc EXCEPT !.st[key] = Get(doc, key, default)]

RestoreCommon(st, doc) ==
    LET a0 == [st |-> st, ok |-> TRUE]
        a1 == RestoreSet(a0, doc, "processed_ids")
        a2 == RestoreSet(a1, doc, "success_ids")
        a3 == RestoreSet(a2, doc, "failed_ids")
    IN  RestoreVal(a3, doc, "error_log", {})

\* AIC_restore_state without its first statement (processed_ids).
AIC_restore_state_no_processed(st, doc) ==
    LET a0 == [st |-> st, ok |-> TRUE]
        a2 == RestoreSet(a0, doc, "success_ids")
        a3 == RestoreSet(a2, doc, "failed_ids")
        a4 == RestoreVal(a3, doc, "error_log", {})
        a5 == RestoreVal(a4, doc, "last_page", 0)
    IN  RestoreVal(a5, doc, "total_pages", 0)

AIC_restore_state(st, doc) ==
    LET a4 == RestoreCommon(st, doc)
        a5 == RestoreVal(a4, doc, "last_page", 0)
    IN  RestoreVal(a5, doc, "total_pages", 0)

Met_restore_state(st, doc) ==
    LET a4 == RestoreCommon(st, doc)
        a5 == RestoreVal(a4, doc, "total_objects", 0)
    IN  RestoreVal(a5, doc, "last_object_id", NoneId)

CMA_restore_state(st, doc) ==
    LET a4 == RestoreCommon(st, doc)
        a5 == RestoreVal(a4, doc, "total_objects", 0)
    IN  RestoreVal(a5, doc, "last_processed_index", 0)

restore_state(m, st, doc) ==
    CASE m = "aic" -> AIC_restore_state(st, doc)
      [] m = "met" -> Met_restore_state(st, doc)
      [] m = "cma" -> CMA_restore_state(st, doc)

\* ------------------------------------------------------------ the files
MissingFile == [kind |-> "missing", doc |-> NoDoc]
GarbageFile == [kind |-> "garbage", doc |-> NoDoc]   \* not JSON
PartialFile == [kind |-> "partial", doc |-> NoDoc]   \* opened 'w', dump unfinished
JsonFile(d) == [kind |-> "json", doc |-> d]

\* json.load(f) succeeds
Parses(f) == f.kind = "json"

\* The state _load_progress leaves in a tracker built over file f, and
\* whether it took the "Starting fresh" branch.
LoadResult(m, f) ==
    IF f.kind = "missing" THEN [st |-> TrackerInitState(m), fresh |-> TRUE]
    ELSE IF ~Parses(f) THEN [st |-> TrackerInitState(m), fresh |-> TRUE]
    ELSE LET r == restore_state(m, TrackerInitState(m), f.doc)
         IN  [st |-> r.st, fresh |-> ~r.ok]

\* log_status without its "processed_ids.add".
log_status_no_processed(st, artwork_id, status, error_message) ==
    LET id == Str(artwork_id)
    IN  IF status = "success"
        THEN [st EXCEPT !.success_ids = @ \cup {id}]
        ELSE LET s0 == [st EXCEPT !.failed_ids = @ \cup {id}]
             IN  IF Truthy(error_message)
                 THEN [s0 EXCEPT !.error_log =
                         {e \in @ : ~(e[1] = status /\ e[2] = id)}
                         \cup {<<status, id, error_message>>}]
                 ELSE s0

\* log_status assigning one-element sets instead of adding to the sets.
log_status_overwrite(st, artwork_id, status, error_message) ==
    LET id == Str(artwork_id)
        s1 == IF status = "success"
              THEN [st EXCEPT !.success_ids = {id}]
              ELSE LET s0 == [st EXCEPT !.failed_ids = {id}]
                   IN  IF Truthy(error_message)
                       THEN [s0 EXCEPT !.error_log =
                               {e \in @ : ~(e[1] = status /\ e[2] = id)}
                               \cup {<<status, id, error_message>>}]
                       ELSE s0
    IN  [s1 EXCEPT !.processed_ids = {id}]

\* log_status putting an id that did not succeed into success_ids as well.
log_status_both(st, artwork_id, status, error_message) ==
    LET id == Str(artwork_id)
        s0 == [st EXCEPT !.success_ids = @ \cup {id}]
        s1 == IF status = "success" THEN s0
              ELSE [s0 EXCEPT !.failed_ids = @ \cup {id}]
    IN  [s1 EXCEPT !.processed_ids = @ \cup {id}]

\* BaseProgressTracker.log_status up to the call of _save_progress
log_status(st, artwork_id, status, error_message) ==
    LET id == Str(artwork_id)
        s1 == IF status = "success"
              THEN [st EXCEPT !.success_ids = @ \cup {id}]
              ELSE LET s0 == [st EXCEPT !.failed_ids = @ \cup {id}]
                   IN  IF Truthy(error_message)
                       THEN [s0 EXCEPT !.error_log =
                               {e \in @ : ~(e[1] = status /\ e[2] = id)}
                               \cup {<<status, id, error_message>>}]
                       ELSE s0
    IN  [s1 EXCEPT !.processed_ids = @ \cup {id}]

\* A tracker that takes no id for processed.
is_processed_never(st, artwork_id) == FALSE

is_processed(st, artwork_id) == Str(artwork_id) \in st.processed_ids

get_statistics(st) ==
    [total_processed |-> Cardinality(st.processed_ids),
     successful |-> Cardinality(st.success_ids),
     failed |-> Cardinality(st.failed_ids),
     error_count |-> Cardinality(st.error_log)]

\* ------------------------------------------------------------ the source
\* An item of the collection, as download_artwork sees it: already stored
\* with an image path, not public domain, without image reference, or
\* downloadable.
Kinds == {"ok", "notpd", "noimg", "indb"}

is_public_domain(kind) == kind # "notpd"
has_image(kind) == kind # "noimg"
in_database(kind) == kind = "indb"

\* str(e) of the exceptions the body of download_artwork raises -- a
\* network error of the image fetch, and an exception without a message
\* (AssertionError(), a programming error) -- and the terms
\* _categorize_error looks for in each.
ErrMsgs == {"", "Connection timeout"}

MsgTerms(msg) ==
    CASE msg = "Connection timeout" -> {"timeout", "connection"}
      [] OTHER -> {}

_categorize_error(error_message) ==
    LET t == MsgTerms(error_message)
    IN  IF t \cap {"timeout", "connection", "network"} # {} THEN "network_error"
        ELSE IF t \cap {"image", "jpg", "jpeg", "png"} # {} THEN "image_processing_error"
        ELSE IF t \cap {"valid", "schema", "format"} # {} THEN "validation_error"
        ELSE IF t \cap {"download", "fetch", "retrieve"} # {} THEN "download_error"
        ELSE IF "skip" \in t THEN "skipped"
        ELSE "other_error"

\* Writing straight to the progress file instead of a temp file.
with_suffix_same(path) == path

\* progress_file.with_suffix('.tmp')
with_suffix_tmp(path) == IF path = "progress" THEN "tmp" ELSE path

\* ---------------------------------------------------------------- state
VARIABLES
    cfg,        \* [museum, dump]: which tracker/adapter, API or data dump
    world,      \* [items, kind, budget]: the ids the source lists, in its
                \* order; what the record of each id can say; how many
                \* failures the environment may inject
    fs,         \* the disk: fs.progress, fs.tmp
    pc,         \* where the process is; "dead" when no process runs
    state,      \* progress_tracker.state
    it,         \* the adapter's generator: its locals
    ret,        \* the caller of the _save_progress in progress
    faults,     \* failures injected so far
    fileBefore, \* history: fs.progress when the save in progress began
    lastSave,   \* history: how the latest save of this process ended
    lost,       \* history: some save of this process failed
    fresh,      \* history: _load_progress took a "Starting fresh" branch
    history,    \* history: the log_status calls of this process
    seenTrue,   \* history: ids for which is_processed has returned True
    call,       \* a single log_status call on a bare state (SpecLog)
    consecutive_errors, \* download_collection's local of that name
    process_completed,  \* download_collection's local of that name
    summary,    \* the report the finally block of download_collection logged
    audit       \* history across processes: image fetches per id, kills

vars == <<cfg, world, fs, pc, state, it, ret, faults,
          fileBefore, lastSave, lost, fresh, history, seenTrue, call,
          consecutive_errors, process_completed, summary, audit>>

\* The locals of download_collection and what its finally block logged.
orch == <<consecutive_errors, process_completed, summary>>

Configs == {[museum |-> "aic", dump |-> FALSE], [museum |-> "aic", dump |-> TRUE],
            [museum |-> "met", dump |-> FALSE],
            [museum |-> "cma", dump |-> FALSE], [museum |-> "cma", dump |-> TRUE]}

\* What the source lists: up to MaxItems entries, an id possibly more than
\* once.  The ids are numbered in the order the listing first names them.
ItemLists ==
    {l \in UNION {[1..n -> Ids] : n \in 0..MaxItems} :
        \A i \in DOMAIN l : \A v \in 1..(l[i] - 1) : \E j \in 1..(i - 1) : l[j] = v}

\* In Worlds the record of an id may say anything each time it is looked
\* at; in FixedWorlds it says one thing for good.
AnyKind == [i \in Ids |-> Kinds]
FixedKinds == {[i \in Ids |-> {f[i]}] : f \in [Ids -> Kinds]}

Worlds == {[items |-> l, kind |-> AnyKind, budget |-> MaxFaults] : l \in ItemLists}

NoItem == [id |-> NoneId]
NoIter == [started |-> FALSE, page |-> 1, k |-> 0, idx |-> 0, todo |-> <<>>,
           cur |-> NoItem, err |-> "none"]

NoCall == [st |-> ProgressState, id |-> PyInt(0), status |-> "", msg |-> NoneMsg,
           done |-> FALSE, out |-> ProgressState]

\* ------------------------------------------- the downloader's settings
\* settings.max_downloads, here configured to one download per run.
max_downloads == 1

\* ArtworkDownloader._check_limits for a downloader that has made
\* download_count downloads (no storage limit configured): may another
\* image be downloaded?  No statement of the program calls it.
_check_limits(download_count) == ~(download_count >= max_downloads)

\* ------------------------------------------- download_collection's locals
\* max_consecutive_errors = 10
max_consecutive_errors == 10

\* "consecutive_errors = 0" behind the call of download_artwork.
on_download_return_count(c) == c + 1

on_download_return(c) == 0

\* _generate_summary_report: the counts it takes from get_statistics (the
\* rates and sizes it derives from them are left out).
_generate_summary_report(st) ==
    LET stats == get_statistics(st)
    IN  [total_processed |-> stats.total_processed,
         successful_downloads |-> stats.successful,
         failed_downloads |-> stats.failed,
         error_count |-> stats.error_count]

NoSummary == [total_processed |-> -1, successful_downloads |-> -1,
              failed_downloads |-> -1, error_count |-> -1]

\* A download_collection whose finally block logs nothing.
finally_block_silent(st) == NoSummary

\* "finally: summary = self._generate_summary_report();
\*  self._log_summary(summary)": what gets logged.
finally_block(st) == _generate_summary_report(st)

\* download_collection is left: by the break behind StopIteration
\* (completed), or by an exception or interrupt passing through (not
\* completed); the finally block runs on the way out.
Leave(st, completed) ==
    /\ pc' = "done"
    /\ process_completed' = completed
    /\ summary' = finally_block(st)

\* ------------------------------------------------------------ the audit
\* Where it is switched on, the audit counts the image fetches issued for
\* each id (0, 1, or 2 for "more than once") and notes whether a process
\* has been killed, and the last_processed_index the dump generator of the
\* process killed last had reached and saved (-1: it had not started, or
\* was inside _save_progress); it outlives the processes.  It also counts
\* the image fetches of the running process, up to max_downloads.
NoAudit == [on |-> FALSE, fetches |-> [i \in Ids |-> 0], killed |-> FALSE,
            index |-> -1, run |-> 0]
NewAudit == [NoAudit EXCEPT !.on = TRUE]

NoteFetch(a, id) ==
    IF ~a.on THEN a
    ELSE [a EXCEPT !.fetches[ToInt(id)] = IF @ = 0 THEN 1 ELSE 2,
                   !.run = IF @ < max_downloads THEN @ + 1 ELSE @]

NoteKill(a, k) == IF ~a.on THEN a ELSE [a EXCEPT !.killed = TRUE, !.index = k]

\* A new process has fetched nothing; when it follows a process that ended
\* by itself, no index of a killed process is pending.
NoteStart(a, p) ==
    IF ~a.on THEN a
    ELSE [a EXCEPT !.run = 0, !.index = IF p = "dead" THEN @ ELSE -1]

\* Progress files a run can find: none, one that is not JSON, one saved by
\* an earlier tracker, or a saved one where the value under one key is no
\* list.
SavedStates(m) ==
    LET base == IF m = "met"
                THEN [TrackerInitState(m) EXCEPT !.total_objects = 1,
                                                 !.last_object_id = Digits(1)]
                ELSE TrackerInitState(m)
    IN  {log_status(base, PyStr(Digits(1)), "success", NoneMsg)}

SavedFiles(m) == {JsonFile(get_state_dict(m, s).doc) : s \in SavedStates(m)}

DamagedFiles(m) ==
    LET d == get_state_dict(m, log_status(CHOOSE s \in SavedStates(m) : TRUE,
                                          PyStr(Digits(2)), "skipped", "Not public domain")).doc
    IN  {JsonFile([d EXCEPT !.bad = {k}]) : k \in {"processed_ids", "failed_ids"}}

InitFiles(m) == {MissingFile, GarbageFile} \cup SavedFiles(m) \cup DamagedFiles(m)

Init ==
    /\ cfg \in Configs
    /\ world \in Worlds
    /\ \E f \in InitFiles(cfg.museum) : fs = [progress |-> f, tmp |-> MissingFile]
    /\ pc = "dead"
    /\ state = ProgressState
    /\ it = NoIter
    /\ ret = "none"
    /\ faults = 0
    /\ fileBefore = MissingFile
    /\ lastSave = "none"
    /\ lost = FALSE
    /\ fresh = FALSE
    /\ history = {}
    /\ seenTrue = {}
    /\ call = NoCall
    /\ consecutive_errors = 0
    /\ process_completed = FALSE
    /\ summary = NoSummary
    /\ audit = NoAudit

\* ------------------------------------------------------ process lifetime
\* main.download_museum_collection: a new process builds the tracker.
Start ==
    /\ pc \in {"dead", "done"}
    /\ pc' = "load"
    /\ state' = TrackerInitState(cfg.museum)
    /\ it' = NoIter
    /\ ret' = "none" /\ lastSave' = "none" /\ lost' = FALSE /\ fresh' = FALSE
    /\ history' = {}
    /\ consecutive_errors' = 0 /\ process_completed' = FALSE
    /\ summary' = NoSummary
    /\ audit' = NoteStart(audit, pc)
    /\ UNCHANGED <<cfg, world, fs, faults, fileBefore, seenTrue, call>>

\* The process is killed: memory is gone, the disk stays as it is.
Crash ==
    /\ pc \notin {"dead", "done"}
    /\ pc' = "dead"
    /\ state' = ProgressState
    /\ it' = NoIter
    /\ ret' = "none" /\ lastSave' = "none" /\ lost' = FALSE /\ fresh' = FALSE
    /\ history' = {}
    /\ fileBefore' = MissingFile
    /\ consecutive_errors' = 0 /\ process_completed' = FALSE
    /\ summary' = NoSummary
    /\ audit' = NoteKill(audit,
                          IF cfg.dump /\ it.started /\ pc \notin {"save_open", "save_dump", "save_replace"}
                          THEN state.last_processed_index ELSE -1)
    /\ UNCHANGED <<cfg, world, fs, faults, seenTrue, call>>

\* ------------------------------------------------------- _save_progress
SavePcs == {"save_open", "save_dump", "save_replace"}

\* Entering _save_progress on behalf of caller c.
EnterSave(c) ==
    /\ pc' = "save_open"
    /\ ret' = c
    /\ fileBefore' = fs.progress
    /\ lastSave' = "pending"

\* Where control goes when the _save_progress called by c returns.
RetPc(c) ==
    CASE c = "ctor" -> "ready"
      [] c = "log" -> "next"
      [] c = "yield" -> "got_item"

\* _save_progress without its except clause: the exception leaves the
\* tracker.
OnSaveException_reraise(c) == "raised"

\* "except Exception as e: logging.error(...)": _save_progress returns to
\* its caller as if it had saved.
OnSaveException(c) == RetPc(c)

\* The _save_progress called by c returns: when log_status called it,
\* download_artwork returns next and download_collection runs
\* "consecutive_errors = 0".
SaveReturns(c) ==
    /\ consecutive_errors' = IF c = "log" THEN on_download_return(consecutive_errors)
                             ELSE consecutive_errors
    /\ UNCHANGED <<process_completed, summary, audit>>

\* _load_progress
Load ==
    /\ pc = "load"
    /\ LET r == LoadResult(cfg.museum, fs.progress)
       IN  /\ state' = r.st
           /\ fresh' = r.fresh
           /\ IF r.fresh
              THEN EnterSave("ctor")
              ELSE /\ pc' = "ready"
                   /\ UNCHANGED <<ret, fileBefore, lastSave>>
    /\ UNCHANGED <<cfg, world, fs, it, faults, lost, history,
                   seenTrue, call, orch, audit>>

\* mkdir; temp_file.open('w'): the temp file exists and is empty.
SaveOpen ==
    /\ pc = "save_open"
    /\ fs' = [fs EXCEPT ![with_suffix_tmp("progress")] = PartialFile]
    /\ pc' = "save_dump"
    /\ UNCHANGED <<cfg, world, state, it, ret, faults, fileBefore,
                   lastSave, lost, fresh, history, seenTrue, call, orch, audit>>

\* json.dump(self.get_state_dict(), f): an AttributeError of get_state_dict
\* is caught by _save_progress like any other exception.
SaveDump ==
    /\ pc = "save_dump"
    /\ LET d == get_state_dict(cfg.museum, state)
       IN  IF d.ok
           THEN /\ fs' = [fs EXCEPT ![with_suffix_tmp("progress")] = JsonFile(d.doc)]
                /\ pc' = "save_replace"
                /\ UNCHANGED <<lastSave, lost, orch, audit>>
           ELSE /\ pc' = OnSaveException(ret)
                /\ lastSave' = "attr_error"
                /\ lost' = TRUE
                /\ SaveReturns(ret)
                /\ UNCHANGED fs
    /\ UNCHANGED <<cfg, world, state, it, ret, faults, fileBefore,
                   fresh, history, seenTrue, call>>

\* temp_file.replace(self.progress_file): an atomic rename.
SaveReplace ==
    /\ pc = "save_replace"
    /\ LET t == with_suffix_tmp("progress")
       IN  fs' = IF t = "progress" THEN fs
                 ELSE [fs EXCEPT !.progress = fs[t], ![t] = MissingFile]
    /\ pc' = RetPc(ret)
    /\ lastSave' = "ok"
    /\ SaveReturns(ret)
    /\ UNCHANGED <<cfg, world, state, it, ret, faults, fileBefore,
                   lost, fresh, history, seenTrue, call>>

\* An I/O error at the current step of _save_progress (mkdir/open, write,
\* rename): caught and logged, the caller goes on.
SaveFault ==
    /\ pc \in SavePcs
    /\ faults < world.budget
    /\ faults' = faults + 1
    /\ pc' = OnSaveException(ret)
    /\ lastSave' = "fault"
    /\ lost' = TRUE
    /\ SaveReturns(ret)
    /\ UNCHANGED <<cfg, world, fs, state, it, ret, fileBefore,
                   fresh, history, seenTrue, call>>

\* ------------------------------------------------------------ adapters
\* The ArtworkMetadata the factory builds from the record of id i:
\* id=str(...).  What the record says about rights and image, and whether
\* the repository holds the artwork, is drawn where download_artwork (or
\* the dump iterator) looks at it.
Item(i) == [id |-> Digits(i)]

Min(a, b) == IF a < b THEN a ELSE b

\* AICClient.get_artwork_page: the 'data' of page p, and
\* pagination.total_pages.
PageData(p) == SubSeq(world.items, (p - 1) * PageLimit + 1,
                      Min(p * PageLimit, Len(world.items)))
TotalPages == (Len(world.items) + PageLimit - 1) \div PageLimit

\* sorted(a set of ints)
RECURSIVE Sorted(_)
Sorted(S) == IF S = {} THEN <<>>
             ELSE LET m == CHOOSE x \in S : \A y \in S : x <= y
                  IN  <<m>> \o Sorted(S \ {m})

\* The candidates that are not processed, as they come: neither sorted nor
\* made unique.
Met_get_unprocessed_ids_as_listed(object_ids, st) ==
    SelectSeq(object_ids, LAMBDA i : Str(PyInt(i)) \notin st.processed_ids)

\* _get_unprocessed_ids of MetClient and of CMAClient, for a client that
\* has a tracker (main gives every client one).
Met_get_unprocessed_ids(object_ids, st) ==
    LET str_ids == {Str(PyInt(object_ids[i])) : i \in DOMAIN object_ids}
        unprocessed_ids == str_ids \ st.processed_ids
    IN  Sorted({ToInt(s) : s \in unprocessed_ids})

CMA_get_unprocessed_ids(artwork_ids, st) ==
    LET str_ids == {Str(PyInt(artwork_ids[i])) : i \in DOMAIN artwork_ids}
        unprocessed_ids == str_ids \ st.processed_ids
    IN  Sorted({ToInt(s) : s \in unprocessed_ids})

_get_unprocessed_ids(m, ids, st) ==
    IF m = "met" THEN Met_get_unprocessed_ids(ids, st)
    ELSE CMA_get_unprocessed_ids(ids, st)

IsAicApi == cfg.museum = "aic" /\ ~cfg.dump
IsIdList == cfg.museum \in {"met", "cma"} /\ ~cfg.dump
IsDump == cfg.dump

\* ArtworkDownloader.download_collection up to its loop: the iterator is
\* created, nothing of it has run.
BeginRun ==
    /\ pc = "ready"
    /\ pc' = "next"
    /\ it' = NoIter
    /\ consecutive_errors' = 0
    /\ process_completed' = FALSE
    /\ UNCHANGED <<cfg, world, fs, state, ret, faults, fileBefore,
                   lastSave, lost, fresh, history, seenTrue, call,
                   summary, audit>>

\* The generator of _iter_api_collection stands at a page fetch: before
\* its first page, or behind the last item of the page it holds.
AtPageFetch == ~it.started \/ it.k >= Len(PageData(it.page))

\* Lines 108-113, run when the for loop over a page is through.
PageDone(st) == IF it.started
                THEN [st EXCEPT !.last_page = it.page, !.total_pages = TotalPages]
                ELSE st
NextPage == IF it.started THEN it.page + 1 ELSE 1

\* next() on AICClient._iter_api_collection, up to its yield or its end.
AicApiNext ==
    /\ pc = "next" /\ IsAicApi
    /\ IF ~AtPageFetch
       THEN /\ it' = [it EXCEPT !.k = @ + 1, !.cur = Item(PageData(it.page)[it.k + 1])]
            /\ pc' = "got_item"
            /\ UNCHANGED <<state, process_completed, summary>>
       ELSE /\ state' = PageDone(state)
            /\ IF PageData(NextPage) = <<>>
               THEN /\ Leave(state', TRUE)
                    /\ it' = [it EXCEPT !.started = TRUE, !.page = NextPage, !.k = 0]
               ELSE /\ pc' = "got_item"
                    /\ it' = [it EXCEPT !.started = TRUE, !.page = NextPage, !.k = 1,
                                        !.cur = Item(PageData(NextPage)[1])]
                    /\ UNCHANGED <<process_completed, summary>>
    /\ UNCHANGED <<cfg, world, fs, ret, faults, fileBefore,
                   lastSave, lost, fresh, history, seenTrue, call,
                   consecutive_errors, audit>>

\* What get_artwork_page raises: raise_for_status() on a 400 answer, or
\* the session's get on a network failure.
PageErrs == {"HTTP 400", "Connection timeout"}

\* An iter_collection without its except clause: the exception of the page
\* fetch comes out of next(), is counted by the loop's except clause and
\* leaves download_collection uncompleted.
AicApiPageFails_raises ==
    /\ pc = "next" /\ IsAicApi /\ AtPageFetch
    /\ faults < world.budget
    /\ faults' = faults + 1
    /\ state' = PageDone(state)
    /\ \E e \in PageErrs :
           it' = [it EXCEPT !.started = TRUE, !.page = NextPage, !.k = 0,
                            !.err = e]
    /\ Leave(state', FALSE)
    /\ consecutive_errors' = consecutive_errors + 1
    /\ UNCHANGED <<cfg, world, fs, ret, fileBefore,
                   lastSave, lost, fresh, history, seenTrue, call, audit>>

\* get_artwork_page raises: _iter_api_collection re-raises whatever it is,
\* iter_collection swallows it and the iterator ends.
AicApiPageFails ==
    /\ pc = "next" /\ IsAicApi /\ AtPageFetch
    /\ faults < world.budget
    /\ faults' = faults + 1
    /\ state' = PageDone(state)
    /\ \E e \in PageErrs :
           it' = [it EXCEPT !.started = TRUE, !.page = NextPage, !.k = 0,
                            !.err = e]
    /\ Leave(state', TRUE)
    /\ UNCHANGED <<cfg, world, fs, ret, fileBefore,
                   lastSave, lost, fresh, history, seenTrue, call,
                   consecutive_errors, audit>>

\* create_metadata raises on a record of the page in hand, or on the first
\* record of the page just fetched (a record without "id", or one whose
\* "color" is null): the exception leaves the for loop, is re-raised by
\* the except clause of _iter_api_collection and swallowed by
\* iter_collection; the iterator ends.
AicApiBuildFails ==
    /\ pc = "next" /\ IsAicApi
    /\ faults < world.budget
    /\ faults' = faults + 1
    /\ IF ~AtPageFetch
       THEN /\ it' = [it EXCEPT !.k = @ + 1, !.err = "create_metadata"]
            /\ UNCHANGED state
       ELSE /\ PageData(NextPage) # <<>>
            /\ state' = PageDone(state)
            /\ it' = [it EXCEPT !.started = TRUE, !.page = NextPage, !.k = 1,
                                !.err = "create_metadata"]
    /\ Leave(state', TRUE)
    /\ UNCHANGED <<cfg, world, fs, ret, fileBefore,
                   lastSave, lost, fresh, history, seenTrue, call,
                   consecutive_errors, audit>>

\* The ids the ID-list generator still has to visit.
Todo == IF it.started THEN it.todo
        ELSE _get_unprocessed_ids(cfg.museum, world.items, state)

\* next() on MetClient._iter_collection_impl / CMAClient.
\* _iter_api_collection_impl when the detail fetch of the next id succeeds.
IdListNext ==
    /\ pc = "next" /\ IsIdList
    /\ IF Todo = <<>>
       THEN /\ Leave(state, TRUE)
            /\ it' = [it EXCEPT !.started = TRUE, !.todo = <<>>]
            /\ UNCHANGED state
       ELSE /\ state' = [state EXCEPT !.total_objects = Len(world.items),
                                      !.last_object_id = Str(PyInt(Head(Todo)))]
            /\ it' = [it EXCEPT !.started = TRUE, !.todo = Tail(Todo),
                                !.cur = Item(Head(Todo))]
            /\ pc' = "got_item"
            /\ UNCHANGED <<process_completed, summary>>
    /\ UNCHANGED <<cfg, world, fs, ret, faults, fileBefore,
                   lastSave, lost, fresh, history, seenTrue, call,
                   consecutive_errors, audit>>

\* An adapter that records the id whose detail fetch failed as processed.
IdListDetailFails_logs ==
    /\ pc = "next" /\ IsIdList
    /\ Todo # <<>>
    /\ faults < world.budget
    /\ faults' = faults + 1
    /\ state' = log_status(state, PyInt(Head(Todo)), "other_error", NoneMsg)
    /\ it' = [it EXCEPT !.started = TRUE, !.todo = Tail(Todo), !.err = "detail"]
    /\ UNCHANGED <<cfg, world, fs, pc, ret, fileBefore,
                   lastSave, lost, fresh, history, seenTrue, call, orch, audit>>

\* The detail fetch of the next id raises or gives no record: logged, and
\* the for loop goes on with the id after it.
IdListDetailFails ==
    /\ pc = "next" /\ IsIdList
    /\ Todo # <<>>
    /\ faults < world.budget
    /\ faults' = faults + 1
    /\ it' = [it EXCEPT !.started = TRUE, !.todo = Tail(Todo), !.err = "detail"]
    /\ UNCHANGED <<cfg, world, fs, pc, state, ret, fileBefore,
                   lastSave, lost, fresh, history, seenTrue, call, orch, audit>>

\* _get_object_ids / _get_artwork_ids raises: the iterator ends.
IdListListingFails ==
    /\ pc = "next" /\ IsIdList
    /\ ~it.started
    /\ faults < world.budget
    /\ faults' = faults + 1
    /\ it' = [it EXCEPT !.started = TRUE]
    /\ Leave(state, TRUE)
    /\ UNCHANGED <<cfg, world, fs, state, ret, fileBefore,
                   lastSave, lost, fresh, history, seenTrue, call,
                   consecutive_errors, audit>>

\* Resuming behind the saved position instead of at it.
DumpFrom_after == IF it.started THEN it.idx ELSE state.last_processed_index + 1

\* Where the dump generator reads next (0-based), and the dump positions
\* from there on.
DumpFrom == IF it.started THEN it.idx ELSE state.last_processed_index
DumpRest == {j \in 0..(Len(world.items) - 1) : j >= DumpFrom}

\* total_files (AIC) / total_objects (CMA), set when the generator starts.
DumpTotal(st) ==
    IF it.started THEN st
    ELSE IF cfg.museum = "aic" THEN [st EXCEPT !.total_files = Len(world.items)]
    ELSE [st EXCEPT !.total_objects = Len(world.items)]

\* What the record at dump position j (0-based) can say.
DumpKinds(j) == world.kind[world.items[j + 1]]

\* "if metadata and metadata.is_public_domain": the record at position j
\* can be passed over / can be yielded.
PassedOver(j) == \E k \in DumpKinds(j) : ~is_public_domain(k)
Yielded(j) == \E k \in DumpKinds(j) : is_public_domain(k)

\* next() on _iter_data_dump up to the _save_progress before its yield, or
\* to its end: the records up to position j are not public domain and are
\* passed over, record j is public domain.
DumpNext ==
    /\ pc = "next" /\ IsDump
    /\ \/ /\ \A x \in DumpRest : PassedOver(x)
          /\ state' = DumpTotal(state)
          /\ it' = [it EXCEPT !.started = TRUE, !.idx = Len(world.items)]
          /\ Leave(state', TRUE)
          /\ UNCHANGED <<ret, fileBefore, lastSave>>
       \/ \E j \in DumpRest :
            /\ \A x \in DumpRest : x < j => PassedOver(x)
            /\ Yielded(j)
            /\ state' = [DumpTotal(state) EXCEPT !.last_processed_index = j]
            /\ it' = [it EXCEPT !.started = TRUE, !.idx = j + 1,
                                !.cur = Item(world.items[j + 1])]
            /\ EnterSave("yield")
            /\ UNCHANGED <<process_completed, summary>>
    /\ UNCHANGED <<cfg, world, fs, faults, lost, fresh, history,
                   seenTrue, call, consecutive_errors, audit>>

\* ---------------------------------------------------------- orchestrator
\* download_collection lines 145-167: the cursor the orchestrator writes,
\* then the defensive is_processed check.  (No statement of the loop body
\* raises an Exception for the records the adapters yield, and
\* download_artwork catches every Exception of its own, so the except
\* clauses of the loop, which count consecutive_errors up, are not
\* entered.)
orchestrator_cursor(m, st, artwork) ==
    IF m \in {"met", "cma"} THEN [st EXCEPT !.last_object_id = artwork.id]
    ELSE st

GotItem ==
    /\ pc = "got_item"
    /\ state' = orchestrator_cursor(cfg.museum, state, it.cur)
    /\ IF is_processed(state', PyStr(it.cur.id))
       THEN /\ pc' = "next"
            /\ seenTrue' = seenTrue \cup {it.cur.id}
       ELSE /\ pc' = "download"
            /\ UNCHANGED seenTrue
    /\ UNCHANGED <<cfg, world, fs, it, ret, faults, fileBefore,
                   lastSave, lost, fresh, history, call, orch, audit>>

\* What the item in hand can be: the dump iterators yield public-domain
\* records only.
ItemKinds == IF IsDump THEN {k \in Kinds : is_public_domain(k)} ELSE Kinds

\* What the record of the item in hand can say.
CurKinds == ItemKinds \cap world.kind[ToInt(it.cur.id)]

\* download_artwork gets as far as the image fetch.
FetchIssued == \E kind \in CurKinds :
                 ~in_database(kind) /\ is_public_domain(kind) /\ has_image(kind)

\* The message download_artwork logs for an item it skips.
SkipDetail(kind) ==
    CASE in_database(kind) -> "Already in database"
      [] ~is_public_domain(kind) -> "Not public domain"
      [] ~has_image(kind) -> "No image available"

Logged(id, status, msg) == [id |-> id, status |-> status, msg |-> msg]

\* download_artwork, one of its three skip branches, with the log_status
\* call up to _save_progress.
DownloadSkip ==
    /\ pc = "download"
    /\ \E kind \in CurKinds \ {"ok"} :
         /\ state' = log_status(state, PyStr(it.cur.id), "skipped", SkipDetail(kind))
         /\ history' = history \cup {Logged(it.cur.id, "skipped", SkipDetail(kind))}
    /\ EnterSave("log")
    /\ UNCHANGED <<cfg, world, fs, it, faults, lost, fresh,
                   seenTrue, call, orch, audit>>

\* A loop that takes the same item up again after its download.
DownloadFetchOk_again ==
    /\ pc = "download"
    /\ FetchIssued
    /\ pc' = "got_item"
    /\ audit' = NoteFetch(audit, it.cur.id)
    /\ consecutive_errors' = on_download_return(consecutive_errors)
    /\ UNCHANGED <<cfg, world, fs, state, it, ret, faults, fileBefore,
                   lastSave, lost, fresh, history, seenTrue, call,
                   process_completed, summary>>

\* download_artwork when the image fetch succeeds: the function ends with
\* the image data in hand; nothing is logged.  download_collection then
\* runs "consecutive_errors = 0".
DownloadFetchOk ==
    /\ pc = "download"
    /\ FetchIssued
    /\ pc' = "next"
    /\ audit' = NoteFetch(audit, it.cur.id)
    /\ consecutive_errors' = on_download_return(consecutive_errors)
    /\ UNCHANGED <<cfg, world, fs, state, it, ret, faults, fileBefore,
                   lastSave, lost, fresh, history, seenTrue, call,
                   process_completed, summary>>

\* A download_artwork without its except clause: the exception of the image
\* fetch reaches download_collection, whose except branch counts it and
\* goes on to the next item; nothing is logged.
DownloadFetchFails_raises ==
    /\ pc = "download"
    /\ FetchIssued
    /\ faults < world.budget
    /\ faults' = faults + 1
    /\ pc' = "next"
    /\ consecutive_errors' = consecutive_errors + 1
    /\ audit' = NoteFetch(audit, it.cur.id)
    /\ UNCHANGED <<cfg, world, fs, state, it, ret, fileBefore, lastSave, lost,
                   fresh, history, seenTrue, call, process_completed, summary>>

\* download_artwork when the image fetch, or another statement of its try
\* block, raises: "except Exception" takes every exception alike and
\* _handle_error logs the categorised error.
DownloadFetchFails ==
    /\ pc = "download"
    /\ FetchIssued
    /\ faults < world.budget
    /\ faults' = faults + 1
    /\ \E m \in ErrMsgs :
         /\ state' = log_status(state, PyStr(it.cur.id), _categorize_error(m), m)
         /\ history' = history \cup {Logged(it.cur.id, _categorize_error(m), m)}
    /\ EnterSave("log")
    /\ audit' = NoteFetch(audit, it.cur.id)
    /\ UNCHANGED <<cfg, world, fs, it, lost, fresh, seenTrue, call, orch>>

\* KeyboardInterrupt raised where the process stands inside the loop of
\* download_collection (pc "next" takes in the sleep of line 199 and the
\* way back to next()): the except clauses of the loop, of iter_collection
\* and of _save_progress name Exception and let it pass; the finally
\* block runs and the interrupt leaves download_collection, taking the
\* generator and any save in progress with it.
InLoop == pc \in {"next", "got_item", "download"}
          \/ (pc \in SavePcs /\ ret \in {"log", "yield"})

Interrupt ==
    /\ InLoop
    /\ Leave(state, process_completed)
    /\ it' = NoIter
    /\ ret' = "none" /\ lastSave' = "none" /\ fileBefore' = MissingFile
    /\ UNCHANGED <<cfg, world, fs, state, faults, lost, fresh, history,
                   seenTrue, call, consecutive_errors, audit>>

Next ==
    \/ Start
    \/ Crash
    \/ Load
    \/ SaveOpen
    \/ SaveDump
    \/ SaveReplace
    \/ SaveFault
    \/ BeginRun
    \/ AicApiNext
    \/ AicApiPageFails
    \/ AicApiBuildFails
    \/ IdListNext
    \/ IdListDetailFails
    \/ IdListListingFails
    \/ DumpNext
    \/ GotItem
    \/ DownloadSkip
    \/ DownloadFetchOk
    \/ DownloadFetchFails

Spec == Init /\ [][Next]_vars

\* ------------------------------------------------------- runs interrupted
\* SpecExit: a first run (no progress file yet) and the runs after it,
\* with everything Next can do, one failure in all, and a
\* KeyboardInterrupt possible anywhere in the loop of download_collection.
ExitWorlds == {[items |-> l, kind |-> AnyKind, budget |-> 1] : l \in ItemLists}

InitExit ==
    /\ cfg \in Configs
    /\ world \in ExitWorlds
    /\ fs = [progress |-> MissingFile, tmp |-> MissingFile]
    /\ pc = "dead"
    /\ state = ProgressState
    /\ it = NoIter
    /\ ret = "none"
    /\ faults = 0
    /\ fileBefore = MissingFile
    /\ lastSave = "none"
    /\ lost = FALSE
    /\ fresh = FALSE
    /\ history = {}
    /\ seenTrue = {}
    /\ call = NoCall
    /\ consecutive_errors = 0
    /\ process_completed = FALSE
    /\ summary = NoSummary
    /\ audit = NoAudit

NextExit == Next \/ Interrupt

SpecExit == InitExit /\ [][NextExit]_vars

\* ------------------------------------------------- runs that are not killed
\* SpecLive: the steps of processes that nobody kills or interrupts.  A
\* running process takes its next step: every call it makes (a request
\* with its retries, a file operation, a sleep) returns or raises, so the
\* steps together are weakly fair.
NextLive ==
    \/ Start
    \/ Load
    \/ SaveOpen
    \/ SaveDump
    \/ SaveReplace
    \/ SaveFault
    \/ BeginRun
    \/ AicApiNext
    \/ AicApiPageFails
    \/ AicApiBuildFails
    \/ IdListNext
    \/ IdListDetailFails
    \/ IdListListingFails
    \/ DumpNext
    \/ GotItem
    \/ DownloadSkip
    \/ DownloadFetchOk
    \/ DownloadFetchFails

SpecLive == InitExit /\ [][NextLive]_vars /\ WF_vars(NextLive)

\* ------------------------------------------- runs over an unchanging source
\* SpecRerun: the progress file does not exist at first, every record of
\* the source says one thing for good, nothing fails, and a process can be
\* killed or interrupted anywhere; the audit is on.
FixedWorlds == {[items |-> l, kind |-> k, budget |-> 0] :
                   l \in ItemLists, k \in FixedKinds}

InitRerun ==
    /\ cfg \in Configs
    /\ world \in FixedWorlds
    /\ fs = [progress |-> MissingFile, tmp |-> MissingFile]
    /\ pc = "dead"
    /\ state = ProgressState
    /\ it = NoIter
    /\ ret = "none"
    /\ faults = 0
    /\ fileBefore = MissingFile
    /\ lastSave = "none"
    /\ lost = FALSE
    /\ fresh = FALSE
    /\ history = {}
    /\ seenTrue = {}
    /\ call = NoCall
    /\ consecutive_errors = 0
    /\ process_completed = FALSE
    /\ summary = NoSummary
    /\ audit = NewAudit

NextRerun ==
    \/ Start
    \/ Crash
    \/ Load
    \/ SaveOpen
    \/ SaveDump
    \/ SaveReplace
    \/ BeginRun
    \/ AicApiNext
    \/ IdListNext
    \/ DumpNext
    \/ GotItem
    \/ DownloadSkip
    \/ DownloadFetchOk
    \/ Interrupt

SpecRerun == InitRerun /\ [][NextRerun]_vars

\* ------------------------------------------------ a long run of failures
\* SpecBreaker: the AIC page API lists one item more than
\* max_consecutive_errors, every record is public domain with an image
\* and not yet stored, and every image fetch can fail.
BreakerIds == 1..(max_consecutive_errors + 1)

InitBreaker ==
    /\ cfg = [museum |-> "aic", dump |-> FALSE]
    /\ world = [items |-> [i \in BreakerIds |-> i],
                kind |-> [i \in BreakerIds |-> {"ok"}],
                budget |-> max_consecutive_errors + 1]
    /\ fs = [progress |-> MissingFile, tmp |-> MissingFile]
    /\ pc = "dead"
    /\ state = ProgressState
    /\ it = NoIter
    /\ ret = "none"
    /\ faults = 0
    /\ fileBefore = MissingFile
    /\ lastSave = "none"
    /\ lost = FALSE
    /\ fresh = FALSE
    /\ history = {}
    /\ seenTrue = {}
    /\ call = NoCall
    /\ consecutive_errors = 0
    /\ process_completed = FALSE
    /\ summary = NoSummary
    /\ audit = NoAudit

NextBreaker ==
    \/ Start
    \/ Load
    \/ SaveOpen
    \/ SaveDump
    \/ SaveReplace
    \/ BeginRun
    \/ AicApiNext
    \/ GotItem
    \/ DownloadFetchFails

SpecBreaker == InitBreaker /\ [][NextBreaker]_vars

\* ------------------------------------------- log_status on a bare state
\* SpecLog applies log_status once to a state, an id (int or str), an
\* outcome and an optional detail drawn from small sets.
LogStates ==
    {AICProgressState,
     log_status(AICProgressState, PyInt(1), "success", NoneMsg),
     log_status(AICProgressState, PyInt(1), "skipped", "Not public domain"),
     log_status(AICProgressState, PyInt(2), "network_error", "Connection timeout")}

LogIds == {PyInt(i) : i \in Ids} \cup {PyStr(Digits(i)) : i \in Ids}
LogStatuses == {"success", "skipped", "network_error"}
LogMsgs == {NoneMsg, "", "Connection timeout", "Not public domain"}

InitLog ==
    /\ cfg = [museum |-> "aic", dump |-> FALSE]
    /\ world = [items |-> <<>>, kind |-> AnyKind, budget |-> 0]
    /\ fs = [progress |-> MissingFile, tmp |-> MissingFile]
    /\ pc = "dead"
    /\ state = ProgressState
    /\ it = NoIter
    /\ ret = "none"
    /\ faults = 0
    /\ fileBefore = MissingFile
    /\ lastSave = "none"
    /\ lost = FALSE
    /\ fresh = FALSE
    /\ history = {}
    /\ seenTrue = {}
    /\ consecutive_errors = 0
    /\ process_completed = FALSE
    /\ summary = NoSummary
    /\ audit = NoAudit
    /\ \E st \in LogStates, id \in LogIds, status \in LogStatuses, msg \in LogMsgs :
         call = [st |-> st, id |-> id, status |-> status, msg |-> msg,
                 done |-> FALSE, out |-> st]

ApplyLog ==
    /\ ~call.done
    /\ call' = [call EXCEPT !.done = TRUE,
                            !.out = log_status(call.st, call.id, call.status, call.msg)]
    /\ UNCHANGED <<cfg, world, fs, pc, state, it, ret, faults,
                   fileBefore, lastSave, lost, fresh, history, seenTrue,
                   orch, audit>>

NextLog == ApplyLog

SpecLog == InitLog /\ [][NextLog]_vars

\* ------------------------------------ _get_unprocessed_ids on its own
\* SpecIds applies _get_unprocessed_ids once to a candidate list (ints as
\* the ID endpoints list them, in any order, repeats allowed) and a tracker
\* state whose processed_ids are strings: str() of a candidate, of another
\* number, or "01", which reads as 1 but is not str(1).
MaxCand == 4
CandPool == {1, 2, 10}
CandLists == UNION {[1..n -> CandPool] : n \in 0..MaxCand}
ProcessedPool == {Digits(1), Digits(2), Digits(10), <<0, 1>>}
IdsStates(m) ==
    {[TrackerInitState(m) EXCEPT !.processed_ids = P, !.last_object_id = l] :
        P \in SUBSET ProcessedPool, l \in {NoneId, Digits(9)}}

InitIds ==
    /\ cfg \in {[museum |-> m, dump |-> FALSE] : m \in {"met", "cma"}}
    /\ world = [items |-> <<>>, kind |-> AnyKind, budget |-> 0]
    /\ fs = [progress |-> MissingFile, tmp |-> MissingFile]
    /\ pc = "dead"
    /\ state = ProgressState
    /\ it = NoIter
    /\ ret = "none"
    /\ faults = 0
    /\ fileBefore = MissingFile
    /\ lastSave = "none"
    /\ lost = FALSE
    /\ fresh = FALSE
    /\ history = {}
    /\ seenTrue = {}
    /\ consecutive_errors = 0
    /\ process_completed = FALSE
    /\ summary = NoSummary
    /\ audit = NoAudit
    /\ \E ids \in CandLists, st \in IdsStates(cfg.museum) :
         call = [ids |-> ids, st |-> st, done |-> FALSE, out |-> <<>>]

ApplyIds ==
    /\ ~call.done
    /\ call' = [call EXCEPT !.done = TRUE,
                            !.out = _get_unprocessed_ids(cfg.museum, call.ids, call.st)]
    /\ UNCHANGED <<cfg, world, fs, pc, state, it, ret, faults,
                   fileBefore, lastSave, lost, fresh, history, seenTrue,
                   orch, audit>>

NextIds == ApplyIds

SpecIds == InitIds /\ [][NextIds]_vars

\* ------------------------------------------ the candidate-ID cache (Met)
\* A cache file is [kind, ids, age]: missing; unreadable (it exists, but
\* stat() or open() raises); corrupt (json.load raises); or a list of ids.
\* age is the time since its st_mtime in hours; the cache expires after
\* 60 * 60 * 24 seconds.  A result is [ok, ids]: ok is FALSE for None (of
\* the loader), for an API that keeps failing and for a raised exception.
CacheTtl == 24

\* _load_cached_object_ids without the expiry test.
_load_cached_object_ids_no_expiry(file) ==
    IF file.kind = "list" THEN [ok |-> TRUE, ids |-> file.ids]
    ELSE [ok |-> FALSE, ids |-> <<>>]

\* MetClient._load_cached_object_ids: the cached list, or None.
_load_cached_object_ids(file) ==
    LET None == [ok |-> FALSE, ids |-> <<>>]
    IN  IF file.kind = "missing" THEN None
        ELSE IF file.kind = "unreadable" THEN None
        ELSE IF file.age > CacheTtl THEN None
        ELSE IF file.kind = "corrupt" THEN None
        ELSE [ok |-> TRUE, ids |-> file.ids]

\* MetClient._get_object_ids with _save_object_ids_cache, for an API that
\* answers with the list api.ids or keeps failing (~api.ok: the last of
\* the max_retries attempts re-raises), and a cache write that goes
\* through, fails at open() or fails inside json.dump (the file is then
\* cut short; the exception is logged, not raised).  The result is what is
\* returned (~out.ok for an exception), the number of list fetches and the
\* cache file afterwards.
_get_object_ids(file, api, write) ==
    LET cached_ids == _load_cached_object_ids(file)
    IN  IF cached_ids.ok
        THEN [out |-> cached_ids, net |-> 0, file |-> file]
        ELSE IF ~api.ok
        THEN [out |-> api, net |-> 1, file |-> file]
        ELSE [out |-> api, net |-> 1,
              file |-> CASE write = "ok" -> [kind |-> "list", ids |-> api.ids, age |-> 0]
                         [] write = "open fails" -> file
                         [] write = "dump fails" -> [kind |-> "corrupt", ids |-> <<>>, age |-> 0]]

\* SpecCache applies _get_object_ids once to a cache file, an answer of the
\* API and an outcome of the cache write.
InitCache ==
    /\ cfg = [museum |-> "met", dump |-> FALSE]
    /\ world = [items |-> <<>>, kind |-> AnyKind, budget |-> 0]
    /\ fs = [progress |-> MissingFile, tmp |-> MissingFile]
    /\ pc = "dead"
    /\ state = ProgressState
    /\ it = NoIter
    /\ ret = "none"
    /\ faults = 0
    /\ fileBefore = MissingFile
    /\ lastSave = "none"
    /\ lost = FALSE
    /\ fresh = FALSE
    /\ history = {}
    /\ seenTrue = {}
    /\ consecutive_errors = 0
    /\ process_completed = FALSE
    /\ summary = NoSummary
    /\ audit = NoAudit
    /\ LET Lists == {<<>>, <<1>>, <<2, 1>>}
           Ages == {0, CacheTtl, CacheTtl + 1}
           Files == {[kind |-> k, ids |-> <<>>, age |-> 0] : k \in {"missing", "unreadable"}}
                    \cup {[kind |-> "corrupt", ids |-> <<>>, age |-> a] : a \in Ages}
                    \cup {[kind |-> "list", ids |-> l, age |-> a] : l \in Lists, a \in Ages}
           Answers == {[ok |-> TRUE, ids |-> l] : l \in Lists}
                      \cup {[ok |-> FALSE, ids |-> <<>>]}
       IN  \E f \in Files, api \in Answers,
              write \in {"ok", "open fails", "dump fails"} :
             call = [file |-> f, api |-> api, write |-> write, done |-> FALSE,
                     res |-> [out |-> [ok |-> FALSE, ids |-> <<>>], net |-> 0,
                              file |-> f]]

ApplyCache ==
    /\ ~call.done
    /\ call' = [call EXCEPT !.done = TRUE,
                            !.res = _get_object_ids(call.file, call.api, call.write)]
    /\ UNCHANGED <<cfg, world, fs, pc, state, it, ret, faults,
                   fileBefore, lastSave, lost, fresh, history, seenTrue,
                   orch, audit>>

SpecCache == InitCache /\ [][ApplyCache]_vars

\* ------------------------------------------ the sources on the worker pool
\* run_parallel_downloads submits download_museum_collection once per
\* museum id to a ThreadPoolExecutor of max_workers = 3 threads, so every
\* museum asked for runs at once.  The threads share one process and one
\* database file (settings.database_path).  In SpecPool call is
\*   tables, museums  the database: whether its tables exist, and the codes
\*                    of the rows of table museums (code is UNIQUE)
\*   at               where each thread is ("idle": museum not asked for)
\*   has_table, missing   what a thread read from the database and has not
\*                    acted on yet
\*   progress         how many items of its collection a source has logged
\*                    to its progress file
\*   access           the files each thread opened, as <<museum, path>>
\* The collection of every source has PoolItems items and nothing else
\* fails, so a source run alone ends with progress = PoolItems.
PoolItems == 2

\* The progress file of download_museum_collection and the candidate-ID
\* cache file of the client (AICClient has none), as path components below
\* settings.data_dir.
get_museum_paths(museum_id) ==
    LET cache_dir == <<museum_id, "cache">>
    IN  [progress_file |-> cache_dir \o <<"processed_ids.json">>,
         object_ids_cache_file |->
             IF museum_id = "met" THEN {cache_dir \o <<"object_ids_cache.json">>}
             ELSE IF museum_id = "cma" THEN {cache_dir \o <<"cma_object_ids_cache.json">>}
             ELSE {}]

InitPool ==
    /\ cfg = [museum |-> "met", dump |-> FALSE]
    /\ world = [items |-> <<>>, kind |-> AnyKind, budget |-> 0]
    /\ fs = [progress |-> MissingFile, tmp |-> MissingFile]
    /\ pc = "dead"
    /\ state = ProgressState
    /\ it = NoIter
    /\ ret = "none"
    /\ faults = 0
    /\ fileBefore = MissingFile
    /\ lastSave = "none"
    /\ lost = FALSE
    /\ fresh = FALSE
    /\ history = {}
    /\ seenTrue = {}
    /\ consecutive_errors = 0
    /\ process_completed = FALSE
    /\ summary = NoSummary
    /\ audit = NoAudit
    /\ \E museum_ids \in SUBSET Museums \ {{}}, used \in BOOLEAN :
         call = [tables |-> used,
                 museums |-> IF used THEN {"met", "aic"} ELSE {},
                 at |-> [m \in Museums |->
                           IF m \in museum_ids THEN "submitted" ELSE "idle"],
                 has_table |-> [m \in Museums |-> FALSE],
                 missing |-> [m \in Museums |-> {}],
                 progress |-> [m \in Museums |-> 0],
                 access |-> {}]

\* download_museum_collection up to the ArtworkDownloader: the tracker is
\* built over the museum's progress file and reads it.
download_museum_collection(m) ==
    /\ call.at[m] = "submitted"
    /\ call' = [call EXCEPT
                  !.at[m] = "built",
                  !.access = @ \cup {<<m, get_museum_paths(m).progress_file>>}]
    /\ UNCHANGED <<cfg, world, fs, pc, state, it, ret, faults,
                   fileBefore, lastSave, lost, fresh, history, seenTrue,
                   orch, audit>>

\* Database.create_tables, Base.metadata.create_all: one statement asks
\* whether the tables exist, a second one creates them when they did not;
\* CREATE TABLE of a table that exists by then raises OperationalError, which
\* leaves ArtworkDownloader.__init__ and ends the thread.
create_tables(m) ==
    /\ \/ /\ call.at[m] = "built"
          /\ call' = [call EXCEPT !.at[m] = "checked",
                                  !.has_table[m] = call.tables]
       \/ /\ call.at[m] = "checked"
          /\ call' = [call EXCEPT
                        !.at[m] = IF ~call.has_table[m] /\ call.tables
                                  THEN "failed" ELSE "tables",
                        !.tables = TRUE]
    /\ UNCHANGED <<cfg, world, fs, pc, state, it, ret, faults,
                   fileBefore, lastSave, lost, fresh, history, seenTrue,
                   orch, audit>>

\* Database.init_museums: the queries find the codes that have no row, the
\* commit inserts them; inserting a code that has a row by then raises
\* IntegrityError (museums.code is unique), which leaves
\* ArtworkDownloader.__init__ and ends the thread.
init_museums(m) ==
    /\ \/ /\ call.at[m] = "tables"
          /\ call' = [call EXCEPT !.at[m] = "queried",
                                  !.missing[m] = {"met", "aic"} \ call.museums]
       \/ /\ call.at[m] = "queried"
          /\ call' = [call EXCEPT
                        !.at[m] = IF call.missing[m] \cap call.museums # {}
                                  THEN "failed" ELSE "running",
                        !.museums = IF call.missing[m] \cap call.museums # {}
                                    THEN @ ELSE @ \cup call.missing[m]]
    /\ UNCHANGED <<cfg, world, fs, pc, state, it, ret, faults,
                   fileBefore, lastSave, lost, fresh, history, seenTrue,
                   orch, audit>>

\* downloader.download_collection on the pool: the client opens its own
\* candidate-ID cache, every item is logged to the museum's progress file,
\* and the run ends after the last item.
download_collection_on_pool(m) ==
    /\ call.at[m] = "running"
    /\ LET paths == get_museum_paths(m)
       IN  IF call.progress[m] < PoolItems
           THEN call' = [call EXCEPT
                           !.progress[m] = @ + 1,
                           !.access = @ \cup {<<m, paths.progress_file>>}
                                        \cup {<<m, f>> : f \in paths.object_ids_cache_file}]
           ELSE call' = [call EXCEPT !.at[m] = "done"]
    /\ UNCHANGED <<cfg, world, fs, pc, state, it, ret, faults,
                   fileBefore, lastSave, lost, fresh, history, seenTrue,
                   orch, audit>>

SpecPool ==
    InitPool /\ [][\E m \in Museums : \/ download_museum_collection(m)
                                      \/ create_tables(m)
                                      \/ init_museums(m)
                                      \/ download_collection_on_pool(m)]_vars

\* -------------------------------------------- sanitize_filename on its own
\* A str is a sequence of one-character strings.
\* clean_text: re.sub(r'[<>:"/\\|?*]', '', text), then ' '.join(text.split()):
\* of the characters left, a blank stays when a non-blank stands before it
\* and some non-blank comes after it.
clean_text(text) ==
    LET kept == SelectSeq(text, LAMBDA c :
                    c \notin {"<", ">", ":", "\"", "/", "\\", "|", "?", "*"})
        I == {i \in DOMAIN kept :
                \/ kept[i] # " "
                \/ /\ i > 1 /\ kept[i - 1] # " "
                   /\ \E j \in DOMAIN kept : j > i /\ kept[j] # " "}
    IN  [k \in 1..Cardinality(I) |->
            kept[CHOOSE i \in I : Cardinality({j \in I : j <= i}) = k]]

\* utils.sanitize_filename for a non-empty id; s[:n] is Python's slice,
\* which counts a negative n from the end.
sanitize_filename(id, title, artist, max_length) ==
    LET title1 == IF title = <<>> THEN <<"U", "n", "t", "i", "t", "l", "e", "d">>
                  ELSE title
        artist1 == IF artist = <<>> THEN <<"U", "n", "k", "n", "o", "w", "n">>
                   ELSE artist
        clean_title == clean_text(title1)
        clean_artist == clean_text(artist1)
        max_title_length == max_length - (Len(id) + Len(clean_artist) + 4 + 2)
        SliceTo(sq, n) ==
            IF n >= 0 THEN SubSeq(sq, 1, IF n < Len(sq) THEN n ELSE Len(sq))
            ELSE SubSeq(sq, 1, IF Len(sq) + n > 0 THEN Len(sq) + n ELSE 0)
        title2 == IF Len(clean_title) > max_title_length
                  THEN SliceTo(clean_title, max_title_length - 3) \o <<".", ".", ".">>
                  ELSE clean_title
    IN  id \o <<"_">> \o title2 \o <<"_">> \o clean_artist \o <<".", "j", "p", "g">>

\* SpecName applies sanitize_filename once, with max_length = NameMaxLength,
\* to an id of digits and to a title and an artist of up to MaxText
\* characters out of a letter, a blank and a slash.
NameMaxLength == 12
MaxText == 3

InitName ==
    /\ cfg = [museum |-> "aic", dump |-> FALSE]
    /\ world = [items |-> <<>>, kind |-> AnyKind, budget |-> 0]
    /\ fs = [progress |-> MissingFile, tmp |-> MissingFile]
    /\ pc = "dead"
    /\ state = ProgressState
    /\ it = NoIter
    /\ ret = "none"
    /\ faults = 0
    /\ fileBefore = MissingFile
    /\ lastSave = "none"
    /\ lost = FALSE
    /\ fresh = FALSE
    /\ history = {}
    /\ seenTrue = {}
    /\ consecutive_errors = 0
    /\ process_completed = FALSE
    /\ summary = NoSummary
    /\ audit = NoAudit
    /\ LET Texts == UNION {[1..n -> {"a", " ", "/"}] : n \in 0..MaxText}
       IN  \E id \in {<<"7">>, <<"4", "2">>}, title \in Texts, artist \in Texts :
             call = [id |-> id, title |-> title, artist |-> artist,
                     done |-> FALSE, out |-> <<>>]

ApplyName ==
    /\ ~call.done
    /\ call' = [call EXCEPT !.done = TRUE,
                            !.out = sanitize_filename(call.id, call.title,
                                                      call.artist, NameMaxLength)]
    /\ UNCHANGED <<cfg, world, fs, pc, state, it, ret, faults,
                   fileBefore, lastSave, lost, fresh, history, seenTrue,
                   orch, audit>>

SpecName == InitName /\ [][ApplyName]_vars

\* ----------------------------------------------------------- properties
\* What a tracker built now over the progress file would hold.
OnDisk == LoadResult(cfg.museum, fs.progress).st

\* The ids the progress file lists as processed.
DiskIds == IF Parses(fs.progress) /\ "processed_ids" \in fs.progress.doc.keys
              /\ "processed_ids" \notin fs.progress.doc.bad
           THEN ListToSet(fs.progress.doc.val.processed_ids)
           ELSE {}

\* The document _save_progress writes for the state in memory.
NewFile == JsonFile(get_state_dict(cfg.museum, state).doc)

SameSets(a, b) ==
    /\ a.processed_ids = b.processed_ids
    /\ a.success_ids = b.success_ids
    /\ a.failed_ids = b.failed_ids
    /\ a.error_log = b.error_log

\* C1: atomic persistence.  Whatever step is taken while _save_progress is
\* in progress (a step of the save, an I/O fault, a kill of the process),
\* the progress file afterwards is the file as it was when the save began
\* or the complete document of the new state; no step ever leaves it
\* truncated, and no step turns a parsable progress file into an
\* unparsable one.
C1_AtomicPersistence ==
    [][/\ pc \in SavePcs => fs'.progress \in {fileBefore, NewFile}
       /\ fs'.progress.kind # "partial"
       /\ Parses(fs.progress) => Parses(fs'.progress)]_vars

\* C1 witness: the process was killed after the temp file was opened and
\* before it was complete; the progress file is still a whole document.
C1_Witness ==
    /\ pc = "dead"
    /\ fs.tmp.kind = "partial"
    /\ Parses(fs.progress)

\* C2: write-through.  When the save of a log_status call has ended
\* without a fault, and whenever the next item is about to be requested
\* after a log_status in a process none of whose saves failed, the
\* progress file decodes to exactly the processed_ids, success_ids,
\* failed_ids and error_log in memory.
C2_WriteThrough ==
    (\/ ret = "log" /\ lastSave = "ok"
     \/ pc = "next" /\ history # {} /\ ~lost)
    => SameSets(OnDisk, state)

\* C2 witness: a log_status call has returned after a good save and the
\* orchestrator is about to ask for the next item.
C2_Witness ==
    /\ pc = "next" /\ ret = "log" /\ lastSave = "ok"
    /\ history # {}
    /\ state.failed_ids # {} /\ state.error_log # {}

\* error_log[status][id], NoneMsg when there is no such entry
ErrGet(log, status, id) ==
    IF \E e \in log : e[1] = status /\ e[2] = id
    THEN (CHOOSE e \in log : e[1] = status /\ e[2] = id)[3]
    ELSE NoneMsg

\* C3: log_status(id, outcome, detail) adds str(id) to processed_ids; on
\* 'success' it adds the id to success_ids and leaves failed_ids and
\* error_log alone; on any other outcome it adds the id to failed_ids and
\* sets error_log[outcome][id] = detail exactly when a detail is given
\* (detail is not None).
C3_LogStatusContract ==
    call.done =>
      LET id == Str(call.id)
          given == call.msg # NoneMsg
      IN  /\ call.out.processed_ids = call.st.processed_ids \cup {id}
          /\ IF call.status = "success"
             THEN /\ call.out.success_ids = call.st.success_ids \cup {id}
                  /\ call.out.failed_ids = call.st.failed_ids
                  /\ call.out.error_log = call.st.error_log
             ELSE /\ call.out.failed_ids = call.st.failed_ids \cup {id}
                  /\ call.out.success_ids = call.st.success_ids
                  /\ given => ErrGet(call.out.error_log, call.status, id) = call.msg
                  /\ ~given => call.out.error_log = call.st.error_log

\* C4: processed_ids is a superset of success_ids and failed_ids in every
\* state of every tracker, however it was built and whatever was logged.
C4_ProcessedSuperset ==
    (state.success_ids \cup state.failed_ids) \subseteq state.processed_ids

\* C4 witness: a tracker rebuilt from the file of an earlier process holds
\* both a success and a failure.
C4_Witness ==
    /\ pc = "ready" /\ ~fresh
    /\ state.success_ids # {} /\ state.failed_ids # {}

EmptyState(m) ==
    CASE m = "aic" -> AICProgressState
      [] m = "met" -> MetProgressState
      [] m = "cma" -> CMAProgressState

\* C6: when the constructor found no progress file, or one it could not
\* parse or restore, and the save it then made met no I/O fault, the
\* tracker holds the empty state and the progress file is a valid
\* document of the empty state.
C6_FreshStart ==
    (pc = "ready" /\ fresh /\ lastSave # "fault") =>
        /\ state = EmptyState(cfg.museum)
        /\ Parses(fs.progress)
        /\ fs.progress.doc.bad = {}
        /\ SameSets(OnDisk, EmptyState(cfg.museum))

\* C7: when a save fails (an I/O fault at opening, writing or renaming the
\* temp file, or any other exception inside _save_progress), control
\* returns to the caller of _save_progress as after a good save, the
\* state in memory is untouched and still holds the id just logged, and
\* the progress file is the file as it was before the save.
C7_SaveFailureContained ==
    [][(pc \in SavePcs /\ lastSave' \in {"fault", "attr_error"}) =>
          /\ pc' = RetPc(ret)
          /\ state' = state
          /\ ret = "log" => /\ is_processed(state', PyStr(it.cur.id))
                            /\ it.cur.id \in state'.success_ids \cup state'.failed_ids
          /\ fs'.progress = fileBefore]_vars

\* C7 witness: the save of a log_status call failed on an I/O fault and
\* the orchestrator goes on to the next item.
C7_Witness ==
    /\ pc = "next" /\ ret = "log" /\ lastSave = "fault"
    /\ is_processed(state, PyStr(it.cur.id))
    /\ fs.progress = fileBefore

\* C8: in a process some of whose saves failed, a save that succeeds
\* leaves on disk every id logged by the process so far, in processed_ids
\* and in success_ids or failed_ids as logged, and every message logged
\* (log_status files a message for a non-empty detail) under its outcome
\* and id.
C8_CumulativeSave ==
    (lastSave = "ok" /\ lost) =>
        \A h \in history :
            /\ h.id \in OnDisk.processed_ids
            /\ IF h.status = "success" THEN h.id \in OnDisk.success_ids
                                       ELSE h.id \in OnDisk.failed_ids
            /\ (h.status # "success" /\ Truthy(h.msg)) =>
                   <<h.status, h.id, h.msg>> \in OnDisk.error_log

\* C8 witness: two outcomes were logged, the save of one failed, and the
\* latest save succeeded.
C8_Witness ==
    /\ lastSave = "ok" /\ lost /\ faults > 0
    /\ Cardinality(history) >= 2
    /\ ret = "log"

\* C9: round trip.  For the state of a built tracker that get_state_dict
\* can serialise, a tracker built over the saved document holds an equal
\* state, sets, error_log and every cursor.
C9_RoundTrip ==
    (pc \notin {"dead", "load"} /\ get_state_dict(cfg.museum, state).ok) =>
        LoadResult(cfg.museum, NewFile).st = state

\* C10: when the next item is about to be requested and nothing has failed
\* (no I/O fault of a save, no failed fetch), every field of the state that the tracker serialises has on
\* disk the value it has in memory.
C10_PersistedBeforeNext ==
    (pc = "next" /\ faults = 0) =>
        \A k \in get_state_dict(cfg.museum, EmptyState(cfg.museum)).doc.keys :
            OnDisk[k] = state[k]

\* What the record of id i says, in a world where it says one thing.
KindOf(i) == CHOOSE k \in world.kind[i] : TRUE

\* The ids for which a single run that nothing interrupts, started without
\* a progress file, logs an outcome: download_artwork logs the items it
\* skips and none of those it fetches; a dump passes over the records that
\* are not public domain.
SingleRunOutcomes ==
    {Digits(world.items[j]) : j \in
        {x \in DOMAIN world.items :
            /\ KindOf(world.items[x]) # "ok"
            /\ IsDump => is_public_domain(KindOf(world.items[x]))}}

\* C11: idempotent re-run.  Over a source that does not change, after any
\* sequence of runs killed or interrupted anywhere, a run that goes to
\* completion ends with success_ids and failed_ids holding together
\* exactly the ids a single uninterrupted run logs, each of them
\* processed: no kill takes an outcome away for good.
C11_IdempotentRerun ==
    (pc = "done" /\ process_completed) =>
        /\ state.success_ids \cup state.failed_ids = SingleRunOutcomes
        /\ \A id \in SingleRunOutcomes : is_processed(state, PyStr(id))

\* C11 witness: a process was killed, a later run went to completion, and
\* it saw an item processed by an earlier one.
C11_Witness ==
    /\ pc = "done" /\ process_completed
    /\ audit.killed
    /\ seenTrue # {}
    /\ Cardinality(state.failed_ids) >= 2

\* C12: across every sequence of runs over the same source, killed or
\* not, an image fetch is issued for an artwork id at most once.
C12_FetchAtMostOnce ==
    \A i \in Ids : audit.fetches[i] <= 1

Candidates == {Digits(world.items[j]) : j \in DOMAIN world.items}

\* C14: fresh run.  A run that started from an empty progress state and
\* went to completion over a source whose candidates are all public
\* domain, with an image, not yet stored, with nothing failing, ends with
\* success_ids = the candidate ids, failed_ids empty, and a summary with
\* total_processed = successful = the number of candidates.
C14_FreshRun ==
    (/\ pc = "done" /\ process_completed /\ fresh
     /\ \A j \in DOMAIN world.items : KindOf(world.items[j]) = "ok") =>
        /\ state.success_ids = Candidates
        /\ state.failed_ids = {}
        /\ summary.total_processed = Cardinality(Candidates)
        /\ summary.successful_downloads = Cardinality(Candidates)

\* C15: non-public-domain skip.  For an item download_artwork has skipped
\* as not public domain, no image fetch was issued, its id is in
\* processed_ids, and its id is neither in success_ids nor in failed_ids.
C15_NonPublicDomainSkip ==
    \A h \in history :
        h.msg = "Not public domain" =>
            /\ audit.fetches[ToInt(h.id)] = 0
            /\ h.id \in state.processed_ids
            /\ h.id \notin state.success_ids
            /\ h.id \notin state.failed_ids

\* C16: whichever adapter and idiom, the record iter_collection has just
\* yielded has an id that is not in the tracker's processed_ids.
C16_AdapterFiltersProcessed ==
    pc = "got_item" => it.cur.id \notin state.processed_ids

\* C17: defensive double-check.  When the adapter has yielded an item
\* whose id is in processed_ids, the step download_collection takes with
\* it (unless the process is killed or interrupted there) enters no
\* download_artwork, makes no log_status call, leaves
\* processed_ids, success_ids, failed_ids and error_log as they are, and
\* goes on to ask for the next item.
C17_DefensiveDoubleCheck ==
    [][(/\ pc = "got_item" /\ it.cur.id \in state.processed_ids
        /\ pc' \notin {"dead", "done"}) =>
          /\ pc' = "next"
          /\ history' = history
          /\ SameSets(state', state)]_vars

\* C17 witness: the item in hand was on file as processed when this
\* process, which has logged nothing, got it from the adapter, and the
\* orchestrator is asking for the next one.
C17_Witness ==
    /\ pc = "next" /\ history = {}
    /\ it.cur.id \in seenTrue
    /\ it.cur.id \in state.processed_ids

\* The number of items the page generator has yielded in this run, and
\* the ids whose image fetch failed on a network error in this run.
Pulled == IF it.started THEN (it.page - 1) * PageLimit + it.k ELSE 0
NetFailed == {h.id : h \in {x \in history : x.status = "network_error"}}

\* The last n items pulled each failed on a network error.
TrailingFailures(n) ==
    /\ Pulled >= n
    /\ \A j \in (Pulled - n + 1)..Pulled : Digits(world.items[j]) \in NetFailed

\* C18: circuit breaker.  Once max_consecutive_errors items in a row have
\* each failed on a network error during the image fetch, the run pulls
\* no further item: it is not back at next(), and when it has ended it
\* has ended aborted (not completed) with the summary logged.
C18_CircuitBreaker ==
    (IsAicApi /\ TrailingFailures(max_consecutive_errors)) =>
        /\ pc \notin {"next", "got_item"}
        /\ pc = "done" => (~process_completed /\ summary # NoSummary)

\* C19: when download_artwork returns from an item whose image it
\* fetched, whatever failed before it, the run goes on to ask for the
\* next item with consecutive_errors = 0; and the run leaves its loop
\* without having completed only on an interrupt or with
\* consecutive_errors at max_consecutive_errors, a count no success has
\* reset.
C19_SuccessResetsCounter ==
    [][/\ (pc = "download" /\ pc' = "next") => consecutive_errors' = 0
       /\ (InLoop /\ pc' = "done" /\ ~process_completed') =>
             (Interrupt \/ consecutive_errors >= max_consecutive_errors)]_vars

\* C19 witness: an item of this run failed on its fetch, the item in hand
\* was fetched (nothing is logged for it), and the run is asking for the
\* next item.
C19_Witness ==
    /\ pc = "next"
    /\ \E h \in history : h.status \notin {"success", "skipped"}
    /\ it.cur # NoItem /\ it.cur.id \notin state.processed_ids
    /\ consecutive_errors = 0

\* C20: whenever download_collection has been left, by the end of the
\* source or by an interrupt landing anywhere in its loop (in a save, in
\* the sleep between items), the summary of the tracker's statistics at
\* that moment has been generated and logged.
C20_SummaryOnEveryExit ==
    pc = "done" =>
        /\ summary # NoSummary
        /\ summary = _generate_summary_report(state)

\* C20 witness: an interrupt ended the run in the middle of a save, after
\* an outcome had been logged; the summary counts it.
C20_Witness ==
    /\ pc = "done" /\ ~process_completed
    /\ fs.tmp.kind = "partial"
    /\ summary.total_processed >= 1
    /\ summary.failed_downloads >= 1

\* C21: when a programming exception (one that is no I/O error; it is
\* categorised other_error) is raised while an item is handled in the loop
\* of download_collection, the exception leaves download_collection: the
\* run is over, not completed, with the summary logged.
C21_FatalPropagates ==
    [][\A h \in history' \ history :
          h.status = "other_error" =>
              /\ pc' = "done"
              /\ ~process_completed'
              /\ summary' # NoSummary]_vars

\* C22: in the page-cursor source a run ends as completed only when a
\* fetched page had no items or a page fetch was answered with HTTP 400;
\* another failure of a page fetch does not end the run as completed.
C22_CompletedOnlyAtEnd ==
    (pc = "done" /\ IsAicApi /\ it.started /\ process_completed) =>
        \/ it.err = "none" /\ PageData(it.page) = <<>>
        \/ it.err = "HTTP 400"

\* C23: when the page iterator of the AIC adapter starts in a process
\* whose tracker was restored with last_page = p > 0, the first page it
\* fetches is page p.
C23_ResumeAtLastPage ==
    [][(pc = "next" /\ IsAicApi /\ ~it.started /\ state.last_page > 0
            /\ it'.started)
          => it'.page = state.last_page]_vars

\* C24: when a run of the dump-file adapter (AIC or CMA) that had advanced
\* last_processed_index to k has been killed and a new process has rebuilt
\* the tracker from the progress file, the dump generator starts reading at
\* index k.
C24_DumpResumeAtIndex ==
    (pc = "next" /\ IsDump /\ ~it.started /\ audit.killed /\ audit.index >= 0)
        => DumpFrom = audit.index

\* C25: in the dump-file adapter last_processed_index advances for every
\* file read, filtered out or not: once the generator has read the file at
\* position i, last_processed_index >= i.
C25_IndexCoversFilesRead ==
    (IsDump /\ it.started) =>
        \A i \in 0..(it.idx - 1) : state.last_processed_index >= i

\* last_object_id as a number (0 while there is none).
CursorId(st) == IF st.last_object_id \in {NoneId, AbsentId} THEN 0
                ELSE ToInt(st.last_object_id)

\* C26: within one run of a source -- from the tracker restored from the
\* progress file to the end of download_collection -- no cursor field
\* (last_page, last_object_id, last_processed_index) decreases from one
\* step to the next, whoever writes it.
C26_CursorsNeverDecrease ==
    [][(pc \notin {"dead", "done", "load"} /\ pc' # "dead") =>
          /\ state'.last_page >= state.last_page
          /\ CursorId(state') >= CursorId(state)
          /\ state'.last_processed_index >= state.last_processed_index]_vars

\* C27: for every candidate list and every processed_ids set, whatever
\* last_object_id is, _get_unprocessed_ids returns exactly the candidates
\* whose string form is not in processed_ids, each once, in ascending
\* numeric order.
C27_UnprocessedIds ==
    call.done =>
        LET out == call.out
        IN  /\ \A i \in DOMAIN out : \A j \in DOMAIN out : i < j => out[i] < out[j]
            /\ {out[i] : i \in DOMAIN out} =
                   {c \in {call.ids[i] : i \in DOMAIN call.ids} :
                        Digits(c) \notin call.st.processed_ids}

\* A list with a repeat, out of order, with a processed candidate and with
\* 1 kept although "01" is processed; last_object_id names no candidate.
C27_Witness ==
    /\ call.done
    /\ \E i, j \in DOMAIN call.ids : i < j /\ call.ids[i] = call.ids[j]
    /\ \E i, j \in DOMAIN call.ids : i < j /\ call.ids[i] > call.ids[j]
    /\ \E i \in DOMAIN call.ids : Digits(call.ids[i]) \in call.st.processed_ids
    /\ <<0, 1>> \in call.st.processed_ids
    /\ Len(call.out) >= 2 /\ call.out[1] = 1
    /\ call.st.last_object_id = Digits(9)

\* The iterator has gone through every candidate of its source.
Exhausted ==
    IF IsAicApi THEN Pulled >= Len(world.items)
    ELSE IF IsIdList THEN Todo = <<>>
    ELSE it.idx >= Len(world.items)

\* C28: in every adapter a failure while fetching or building one item's
\* record is caught and the iteration goes on: when the iterator has ended
\* in a run in which one item's record failed, it has gone through every
\* later candidate.
C28_ItemFailureIsolated ==
    (pc = "done" /\ process_completed /\ it.err \in {"create_metadata", "detail"})
        => Exhausted

\* The error_log l has an entry for id.
HasEntry(l, id) == \E e \in l : e[2] = id

\* C29: no item failure is silent.  A candidate whose detail fetch fails
\* in the ID-list adapter is recorded as failed, with an error_log entry,
\* by that step; and when the run ends, every id this run logged as failed
\* or skipped has an entry in the error_log of the progress file and is
\* among the failed ids the summary counts.
C29_NoSilentFailure ==
    [][/\ (pc = "next" /\ IsIdList /\ Todo # <<>> /\ faults' > faults
              /\ it'.err = "detail" /\ it'.todo = Tail(Todo))
          => /\ Digits(Head(Todo)) \in state'.failed_ids
             /\ HasEntry(state'.error_log, Digits(Head(Todo)))
       /\ (pc # "done" /\ pc' = "done")
          => \A h \in history' :
                h.status # "success" =>
                    /\ HasEntry(OnDisk'.error_log, h.id)
                    /\ h.id \in state'.failed_ids]_vars

\* C30: with a maximum download count configured, an item that would be
\* downloaded when the count is reached is not fetched: it is recorded by
\* log_status as skipped with detail "limits reached", the consecutive-
\* error counter is not incremented and the run goes on.
C30_QuotaSkips ==
    [][(pc = "download" /\ FetchIssued /\ ~_check_limits(audit.run)
            /\ pc' \notin {"dead", "done"})
          => /\ audit'.fetches = audit.fetches
             /\ history' = history \cup {Logged(it.cur.id, "skipped", "limits reached")}
             /\ state' = log_status(state, PyStr(it.cur.id), "skipped", "limits reached")
             /\ consecutive_errors' <= consecutive_errors]_vars

\* C32: in every state reached by running the orchestrator over a tracker
\* that started empty, through any runs, kills and reloads, no id is both
\* in success_ids and in failed_ids, in memory or in the progress file.
C32_SuccessFailedDisjoint ==
    /\ state.success_ids \cap state.failed_ids = {}
    /\ OnDisk.success_ids \cap OnDisk.failed_ids = {}

\* A tracker rebuilt from the file of an earlier run that recorded a
\* failure or a skip.
C32_Witness ==
    /\ pc = "ready"
    /\ state.failed_ids # {}
    /\ OnDisk.failed_ids = state.failed_ids

\* C36: log_status keeps processed_ids equal to success_ids union
\* failed_ids -- it holds for the empty state, and when it holds before a
\* call it holds after it -- so get_statistics reports total_processed as
\* the size of that union, and an id logged as skipped is among the ids
\* counted as failed.
C36_ProcessedIsUnion ==
    /\ AICProgressState.processed_ids =
           AICProgressState.success_ids \cup AICProgressState.failed_ids
    /\ (call.done /\ call.st.processed_ids = call.st.success_ids \cup call.st.failed_ids)
          => /\ call.out.processed_ids = call.out.success_ids \cup call.out.failed_ids
             /\ get_statistics(call.out).total_processed =
                    Cardinality(call.out.success_ids \cup call.out.failed_ids)
             /\ call.status = "skipped" => Str(call.id) \in call.out.failed_ids

\* A skip logged on a tracker that already holds another id as a success.
C36_Witness ==
    /\ call.done /\ call.status = "skipped"
    /\ call.st.success_ids # {} /\ Str(call.id) \notin call.st.processed_ids
    /\ get_statistics(call.out).total_processed = 2
    /\ get_statistics(call.out).failed = 1

\* C37: an exception raised inside download_artwork does not reach
\* download_collection: the step in which the fetch fails makes exactly
\* one log_status call for the item in hand, with the category of the
\* message, and the except branches of download_collection, which count
\* consecutive_errors up, are not entered.
C37_DownloadErrorsContained ==
    [][(pc = "download" /\ faults' > faults) =>
          /\ \E m \in ErrMsgs :
                LET cat == IF m = "Connection timeout" THEN "network_error"
                           ELSE "other_error"
                IN  /\ history' = history \cup {Logged(it.cur.id, cat, m)}
                    /\ state' = log_status(state, PyStr(it.cur.id), cat, m)
          /\ pc' = "save_open" /\ ret' = "log"
          /\ consecutive_errors' = 0]_vars

\* A fetch failure has been logged and the run has gone on to next() with
\* the counter at 0.
C37_Witness ==
    /\ pc = "next"
    /\ \E h \in history : h.status = "network_error"
    /\ faults > 0 /\ consecutive_errors = 0

C39_IndexSavedBeforeYield ==
    (IsDump /\ it.started /\ pc \in {"got_item", "download"})
        => OnDisk.last_processed_index = it.idx - 1

\* C40: in the ID-list adapters a candidate whose detail fetch raises or
\* gives no record is added to none of processed_ids, success_ids and
\* failed_ids, in memory or in the progress file; and the generator of
\* every run starts with all candidates that are not in processed_ids to
\* visit, so the id is fetched again by the next run.
C40_FailedDetailRetried ==
    [][/\ (pc = "next" /\ IsIdList /\ Todo # <<>> /\ faults' > faults
              /\ it'.err = "detail" /\ it'.todo = Tail(Todo))
          => LET id == Digits(Head(Todo))
             IN  /\ state' = state /\ fs' = fs
                 /\ id \notin state'.processed_ids \cup state'.success_ids
                                \cup state'.failed_ids
                 /\ id \notin DiskIds'
       /\ (pc = "next" /\ IsIdList /\ ~it.started)
          => \A i \in DOMAIN world.items :
                Digits(world.items[i]) \notin state.processed_ids
                    => \E j \in DOMAIN Todo : Todo[j] = world.items[i]]_vars

\* The detail fetch of id 1 has failed and the generator has gone on to
\* id 2; id 1 is in no set.
C40_Witness ==
    /\ IsIdList /\ pc = "next" /\ it.started /\ it.err = "detail"
    /\ world.items = <<1, 2>> /\ it.todo = <<2>>
    /\ Digits(1) \notin state.processed_ids \cup state.failed_ids

\* C35: download_collection terminates.  For every list of items the
\* adapter produces and every pattern of failures, a run that enters the
\* loop of download_collection eventually leaves it (the adapter is
\* exhausted, or an exception ends the iteration), however often this is
\* repeated.
C35_Termination == (pc = "ready") ~> (pc = "done")

\* A run over two items has left its loop after a failure on the way.
C35_Witness ==
    /\ pc = "done" /\ process_completed
    /\ Len(world.items) = 2 /\ faults > 0
    /\ Exhausted

\* C33: for every non-empty id and every title and artist, the name
\* sanitize_filename returns is at most max_length long, holds none of the
\* characters < > : " / \ | ? * and holds the id and the artist in full.
C33_FilenameSafe ==
    call.done =>
        LET Holds(sq, t) == \E i \in 0..(Len(sq) - Len(t)) :
                                SubSeq(sq, i + 1, i + Len(t)) = t
        IN  /\ Len(call.out) <= NameMaxLength
            /\ \A i \in DOMAIN call.out :
                   call.out[i] \notin {"<", ">", ":", "\"", "/", "\\", "|", "?", "*"}
            /\ Holds(call.out, call.id)
            /\ Holds(call.out, call.artist)

C31_SourceIndependence ==
    /\ \A a \in call.access : a[2][1] = a[1]
    /\ \A m \in Museums :
         call.at[m] \in {"done", "failed"} => call.progress[m] = PoolItems

====
